---------------------------- MODULE Spec2Model ----------------------------
(***************************************************************************)
(* A model of github.com/ajsqr/websocket: the opener (opener.go), the      *)
(* frame type (frame.go), and the connection with its frame codec and      *)
(* fragmentation (websocket.go).  Bytes are the integers 0..255, a []byte  *)
(* is a sequence of bytes, a nil pointer or nil slice is the empty         *)
(* sequence <<>> and a pointer to v is <<v>>.                              *)
(***************************************************************************)
EXTENDS Integers, Sequences, FiniteSets, TLC

(***************************************************************************)
(* Bounds of the model.                                                    *)
(***************************************************************************)
\* longest application payload handed to Send
MaxLen == 3
\* largest number of segments in which the peer's bytes reach the reader
MaxSegs == 2

(***************************************************************************)
(* Byte arithmetic.                                                        *)
(***************************************************************************)
Min(a, b) == IF a < b THEN a ELSE b

Zeros(n) == [i \in 1..n |-> 0]

BitAt(x, k) == (x \div (2^k)) % 2

\* b ^ m on two bytes
Xor(a, b) ==
    LET bit(k) == ((BitAt(a, k) + BitAt(b, k)) % 2) * (2^k)
    IN  bit(0) + bit(1) + bit(2) + bit(3) + bit(4) + bit(5) + bit(6) + bit(7)

\* binary.BigEndian.Uint16 / PutUint16
Uint16(b) == b[1] * 256 + b[2]

PutUint16(v) == << (v \div 256) % 256, v % 256 >>

\* A uint64 is kept as its 8 bytes in network byte order (TLC's integers are
\* 32 bits wide).  binary.BigEndian.Uint64 reads such a value, PutUint64
\* writes it; uint64(n) of a non-negative int n < 2^31 is U64OfInt(n).
U64OfInt(n) == [i \in 1..8 |-> IF i <= 4 THEN 0 ELSE (n \div (256^(8 - i))) % 256]

\* the value is below 2^31
U64Fits(u) == u[1] = 0 /\ u[2] = 0 /\ u[3] = 0 /\ u[4] = 0 /\ u[5] < 128

U64ToInt(u) == ((u[5] * 256 + u[6]) * 256 + u[7]) * 256 + u[8]

\* u <= n, for an int n < 2^31
U64Le(u, n) == U64Fits(u) /\ U64ToInt(u) <= n

MaxUint16 == 2^16 - 1

\* math.MaxUint64
MaxUint64 == [i \in 1..8 |-> 255]

\* uint16(n) of a non-negative int
ToUint16(n) == n % (2^16)

(***************************************************************************)
(* frame.go: opcodes and the Frame type.                                   *)
(***************************************************************************)
ContinuationFrame == "continuation frame"
TextFrame == "text frame"
BinaryFrame == "binary frame"
NonControlFrame == "non control frame"
ConnectionClose == "connection close"
Ping == "ping"
Pong == "pong"
ControlFrame == "control frame"

TextWebsocket == "text"
BinaryWebsocket == "binary"

\* Frame{}: the zero value
ZeroFrame ==
    [FIN |-> FALSE, Opcode |-> "", Mask |-> FALSE,
     payloadLengthInt |-> <<>>, payloadLengthInt16 |-> <<>>,
     payloadLengthInt64 |-> <<>>,
     MaskingKey |-> <<>>, ApplicationData |-> <<>>]

\* PayloadLength: always a uint64
PayloadLength(f) ==
    IF f.payloadLengthInt # <<>> THEN U64OfInt(f.payloadLengthInt[1])
    ELSE IF f.payloadLengthInt16 # <<>> THEN U64OfInt(f.payloadLengthInt16[1])
    ELSE IF f.payloadLengthInt64 # <<>> THEN f.payloadLengthInt64[1]
    ELSE U64OfInt(0)

\* Frame.umask: make([]byte, len(payload)) and then append of every
\* b ^ mask[i % 4]; mask[j] on a nil MaskingKey is an index out of range.
umask(f) ==
    LET payload == f.ApplicationData
        mask == f.MaskingKey
    IN  IF Len(payload) > 0 /\ Len(mask) = 0
        THEN [panic |-> TRUE, out |-> <<>>]
        ELSE [panic |-> FALSE,
              out |-> Zeros(Len(payload)) \o
                      [i \in 1..Len(payload) |->
                          Xor(payload[i], mask[((i - 1) % 4) + 1])]]

(***************************************************************************)
(* websocket.go: fragment.                                                 *)
(***************************************************************************)
\* lines 434-446: the length field chosen for a chunk; err when none is
chunkLengthField(chunkLength) ==
    IF chunkLength < 126
    THEN [err |-> "nil", int |-> <<chunkLength>>, int16 |-> <<>>, int64 |-> <<>>]
    ELSE IF ToUint16(chunkLength) >= 126 /\ ToUint16(chunkLength) < MaxUint16
    THEN [err |-> "nil", int |-> <<>>, int16 |-> <<ToUint16(chunkLength)>>,
          int64 |-> <<>>]
    ELSE IF chunkLength >= MaxUint16 /\ U64OfInt(chunkLength) # MaxUint64
    THEN [err |-> "nil", int |-> <<>>, int16 |-> <<>>,
          int64 |-> <<U64OfInt(chunkLength)>>]
    ELSE [err |-> "InvalidLength", int |-> <<>>, int16 |-> <<>>, int64 |-> <<>>]

\* fragmentLoop with the chunk size not clamped to what is left to read
RECURSIVE fragmentLoopUnclamped(_, _, _, _, _)
fragmentLoopUnclamped(data, off, payloadLength, framingLimit, frames) ==
    LET chunkSize == framingLimit
    IN  IF chunkSize < 0 THEN [err |-> "panic", frames |-> frames]
        ELSE IF off >= Len(data) THEN [err |-> "nil", frames |-> frames]
        ELSE
          LET read == Min(chunkSize, Len(data) - off)
              chunk == SubSeq(data, off + 1, off + read) \o Zeros(chunkSize - read)
              lf == chunkLengthField(Len(chunk))
              frame == [ZeroFrame EXCEPT !.ApplicationData = chunk,
                                         !.Opcode = ContinuationFrame,
                                         !.payloadLengthInt = lf.int,
                                         !.payloadLengthInt16 = lf.int16,
                                         !.payloadLengthInt64 = lf.int64]
          IN  IF lf.err # "nil" THEN [err |-> lf.err, frames |-> frames]
              ELSE IF read = 0 THEN [err |-> "diverge", frames |-> frames]
              ELSE fragmentLoopUnclamped(data, off + read, payloadLength - read,
                                         framingLimit, Append(frames, frame))

\* The for loop of fragment (lines 416-451).  off is the position of the
\* bytes.Reader, payloadLength the loop's counter.  A negative chunkSize
\* makes make([]byte, chunkSize) panic; an iteration that reads nothing
\* without io.EOF leaves off and payloadLength as they were, so the loop
\* never ends ("diverge").
RECURSIVE fragmentLoop(_, _, _, _, _)
fragmentLoop(data, off, payloadLength, framingLimit, frames) ==
    LET chunkSize == IF framingLimit < payloadLength
                     THEN framingLimit ELSE payloadLength
    IN  IF chunkSize < 0 THEN [err |-> "panic", frames |-> frames]
        ELSE IF off >= Len(data) THEN [err |-> "nil", frames |-> frames]
        ELSE
          LET read == Min(chunkSize, Len(data) - off)
              chunk == SubSeq(data, off + 1, off + read) \o Zeros(chunkSize - read)
              lf == chunkLengthField(Len(chunk))
              frame == [ZeroFrame EXCEPT !.ApplicationData = chunk,
                                         !.Opcode = ContinuationFrame,
                                         !.payloadLengthInt = lf.int,
                                         !.payloadLengthInt16 = lf.int16,
                                         !.payloadLengthInt64 = lf.int64]
          IN  IF lf.err # "nil" THEN [err |-> lf.err, frames |-> frames]
              ELSE IF read = 0 THEN [err |-> "diverge", frames |-> frames]
              ELSE fragmentLoop(data, off + read, payloadLength - read,
                                framingLimit, Append(frames, frame))

\* fragmentFinish with FIN set on the first frame instead of the last
fragmentFinishFirst(t, frames) ==
    IF Len(frames) > 0
    THEN LET fin == [frames EXCEPT ![1].FIN = TRUE]
         IN  IF t = TextWebsocket
             THEN [err |-> "nil", frames |-> [fin EXCEPT ![1].Opcode = TextFrame]]
             ELSE IF t = BinaryWebsocket
             THEN [err |-> "nil", frames |-> [fin EXCEPT ![1].Opcode = BinaryFrame]]
             ELSE [err |-> "InvalidFrameType", frames |-> fin]
    ELSE [err |-> "nil", frames |-> frames]

\* lines 453-468: FIN on the last frame, the message type on the first
fragmentFinish(t, frames) ==
    IF Len(frames) > 0
    THEN LET fin == [frames EXCEPT ![Len(frames)].FIN = TRUE]
         IN  IF t = TextWebsocket
             THEN [err |-> "nil", frames |-> [fin EXCEPT ![1].Opcode = TextFrame]]
             ELSE IF t = BinaryWebsocket
             THEN [err |-> "nil", frames |-> [fin EXCEPT ![1].Opcode = BinaryFrame]]
             ELSE [err |-> "InvalidFrameType", frames |-> fin]
    ELSE [err |-> "nil", frames |-> frames]

fragment(t, framingLimit, data) ==
    LET loop == fragmentLoop(data, 0, Len(data), framingLimit, <<>>)
    IN  IF loop.err # "nil" THEN loop ELSE fragmentFinish(t, loop.frames)

(***************************************************************************)
(* websocket.go: writeFrame.  bytes are what the frame puts into the       *)
(* bufio.Writer up to the point where it returns; they reach the stream    *)
(* only by the Flush at the end.                                           *)
(***************************************************************************)
opcodeNibble(op) ==
    CASE op = ContinuationFrame -> 0
      [] op = TextFrame -> 1
      [] op = BinaryFrame -> 2
      [] op = ConnectionClose -> 8
      [] op = Ping -> 9
      [] op = Pong -> 10
      [] OTHER -> -1

\* writeFrame setting the MASK bit and writing a masking key, as a client
\* would
writeFrameMasked(frame) ==
    LET frameIdentifier == (IF frame.FIN THEN 128 ELSE 0) + opcodeNibble(frame.Opcode)
        pl == PayloadLength(frame)
        payloadLength == IF U64Le(pl, 125) THEN U64ToInt(pl)
                         ELSE IF U64Le(pl, MaxUint16) THEN 126
                         ELSE 127
        head == << frameIdentifier, 128 + payloadLength >>
        key == << 0, 0, 0, 0 >>
    IN  IF opcodeNibble(frame.Opcode) < 0
        THEN [err |-> "InvalidOpcode", bytes |-> <<>>]
        ELSE IF payloadLength = 126
        THEN IF frame.payloadLengthInt16 = <<>>
             THEN [err |-> "panic", bytes |-> head]
             ELSE [err |-> "nil",
                   bytes |-> head \o PutUint16(frame.payloadLengthInt16[1])
                                  \o key \o frame.ApplicationData]
        ELSE IF payloadLength = 127
        THEN IF frame.payloadLengthInt64 = <<>>
             THEN [err |-> "panic", bytes |-> head]
             ELSE [err |-> "nil",
                   bytes |-> head \o frame.payloadLengthInt64[1]
                                  \o key \o frame.ApplicationData]
        ELSE [err |-> "nil", bytes |-> head \o key \o frame.ApplicationData]

writeFrame(frame) ==
    LET frameIdentifier == (IF frame.FIN THEN 128 ELSE 0) + opcodeNibble(frame.Opcode)
        pl == PayloadLength(frame)
        \* every uint64 is <= math.MaxUint64: the InvalidLength branch of
        \* lines 368-370 is never taken
        payloadLength == IF U64Le(pl, 125) THEN U64ToInt(pl)
                         ELSE IF U64Le(pl, MaxUint16) THEN 126
                         ELSE 127
        head == << frameIdentifier, payloadLength >>
    IN  IF opcodeNibble(frame.Opcode) < 0
        THEN [err |-> "InvalidOpcode", bytes |-> <<>>]
        ELSE IF payloadLength = 126
        THEN IF frame.payloadLengthInt16 = <<>>
             THEN [err |-> "panic", bytes |-> head]
             ELSE [err |-> "nil",
                   bytes |-> head \o PutUint16(frame.payloadLengthInt16[1])
                                  \o frame.ApplicationData]
        ELSE IF payloadLength = 127
        THEN IF frame.payloadLengthInt64 = <<>>
             THEN [err |-> "panic", bytes |-> head]
             ELSE [err |-> "nil",
                   bytes |-> head \o frame.payloadLengthInt64[1]
                                  \o frame.ApplicationData]
        ELSE [err |-> "nil", bytes |-> head \o frame.ApplicationData]

(***************************************************************************)
(* The read half: bufio.NewReader(conn) (opener.go line 44).  A reader is  *)
(* [buf, net, closed]: buf the bytes the bufio.Reader holds, net the       *)
(* segments still to come from the connection (each Read on the conn       *)
(* returns the head segment, or as much of it as fits), closed whether     *)
(* the peer has closed after them.  err "block" means the call waits for   *)
(* the peer.                                                               *)
(***************************************************************************)
\* bufio's default buffer size
defaultBufSize == 4096

\* one Read on the connection into a buffer of cap bytes
connRead(r, cap) ==
    IF r.net = <<>>
    THEN [err |-> IF r.closed THEN "EOF" ELSE "block", data |-> <<>>, r |-> r]
    ELSE LET seg == Head(r.net)
             n == Min(cap, Len(seg))
         IN  [err |-> "nil", data |-> SubSeq(seg, 1, n),
              r |-> [r EXCEPT !.net = IF n = Len(seg) THEN Tail(r.net)
                       ELSE <<SubSeq(seg, n + 1, Len(seg))>> \o Tail(r.net)]]

\* bufio.Reader.ReadByte: fills the empty buffer by one Read on the conn
ReadByte(r) ==
    IF r.buf # <<>>
    THEN [err |-> "nil", data |-> <<Head(r.buf)>>, r |-> [r EXCEPT !.buf = Tail(r.buf)]]
    ELSE LET c == connRead(r, defaultBufSize)
         IN  IF c.err # "nil" THEN c
             ELSE [err |-> "nil", data |-> <<Head(c.data)>>,
                   r |-> [c.r EXCEPT !.buf = Tail(c.data)]]

\* bufio.Reader.Read(p) with len(p) = n: the bytes come from the buffer, or
\* from at most one Read on the conn, hence fewer than n may be returned
\* with no error.  With n = 0 it returns 0, nil.
Read(r, n) ==
    IF n = 0 THEN [err |-> "nil", data |-> <<>>, r |-> r]
    ELSE IF r.buf # <<>>
    THEN LET k == Min(n, Len(r.buf))
         IN  [err |-> "nil", data |-> SubSeq(r.buf, 1, k),
              r |-> [r EXCEPT !.buf = SubSeq(r.buf, k + 1, Len(r.buf))]]
    ELSE IF n >= defaultBufSize
    THEN connRead(r, n)
    ELSE LET c == connRead(r, defaultBufSize)
             k == Min(n, Len(c.data))
         IN  IF c.err # "nil" THEN c
             ELSE [err |-> "nil", data |-> SubSeq(c.data, 1, k),
                   r |-> [c.r EXCEPT !.buf = SubSeq(c.data, k + 1, Len(c.data))]]

\* p := make([]byte, n) after a Read that stored data at its front
Filled(n, data) == data \o Zeros(n - Len(data))

(***************************************************************************)
(* websocket.go: readFrame.                                                *)
(***************************************************************************)
\* lines 238-258: every value of the 4-bit opcode has a case
opcodeOf(nibble) ==
    CASE nibble = 0 -> ContinuationFrame
      [] nibble = 1 -> TextFrame
      [] nibble = 2 -> BinaryFrame
      [] nibble \in 3..7 -> NonControlFrame
      [] nibble = 8 -> ConnectionClose
      [] nibble = 9 -> Ping
      [] nibble = 10 -> Pong
      [] nibble \in 11..15 -> ControlFrame
      [] OTHER -> "InvalidOpcode"

\* lines 309-316: make([]byte, f.PayloadLength()) and one Read into it.  A
\* length that is no valid slice length aborts the program: makeslice
\* panics at 2^63 and above, and the runtime ends the program (len out of
\* range or out of memory) for the lengths below that no machine holds;
\* the abort is "panic".
rfPayload(f, r) ==
    LET pl == PayloadLength(f)
    IN  IF ~U64Fits(pl) THEN [err |-> "panic", frame |-> f, r |-> r]
        ELSE LET rd == Read(r, U64ToInt(pl))
             IN  IF rd.err = "block" THEN [err |-> "block", frame |-> f, r |-> rd.r]
                 ELSE IF rd.err # "nil"
                 THEN [err |-> "BadRequest", frame |-> f, r |-> rd.r]
                 ELSE [err |-> "nil",
                       frame |-> [f EXCEPT !.ApplicationData =
                                     Filled(U64ToInt(pl), rd.data)],
                       r |-> rd.r]

\* lines 298-307: the masking key
rfKey(f, r) ==
    IF f.Mask
    THEN LET rd == Read(r, 4)
         IN  IF rd.err = "block" THEN [err |-> "block", frame |-> f, r |-> rd.r]
             ELSE IF rd.err # "nil"
             THEN [err |-> "BadRequest", frame |-> f, r |-> rd.r]
             ELSE rfPayload([f EXCEPT !.MaskingKey = Filled(4, rd.data)], rd.r)
    ELSE rfPayload(f, r)

\* lines 270-296: the payload length
rfLength(f, r, payloadLengthMetadata) ==
    IF payloadLengthMetadata <= 125
    THEN rfKey([f EXCEPT !.payloadLengthInt = <<payloadLengthMetadata>>], r)
    ELSE IF payloadLengthMetadata = 126
    THEN LET rd == Read(r, 2)
         IN  IF rd.err # "nil" THEN [err |-> rd.err, frame |-> f, r |-> rd.r]
             ELSE rfKey([f EXCEPT !.payloadLengthInt16 =
                            <<Uint16(Filled(2, rd.data))>>], rd.r)
    ELSE IF payloadLengthMetadata = 127
    THEN LET rd == Read(r, 8)
         IN  IF rd.err # "nil" THEN [err |-> rd.err, frame |-> f, r |-> rd.r]
             ELSE rfKey([f EXCEPT !.payloadLengthInt64 =
                            <<Filled(8, rd.data)>>], rd.r)
    ELSE [err |-> "InvalidLength", frame |-> f, r |-> r]

\* readFrame: [err, frame, r], r the reader after the call
readFrame(r) ==
    LET b == ReadByte(r)
    IN  IF b.err # "nil" THEN [err |-> b.err, frame |-> ZeroFrame, r |-> b.r]
        ELSE
          LET f0 == [ZeroFrame EXCEPT !.FIN = (b.data[1] >= 128),
                                      !.Opcode = opcodeOf(b.data[1] % 16)]
              m == ReadByte(b.r)
          IN  IF f0.Opcode = "InvalidOpcode"
              THEN [err |-> "InvalidOpcode", frame |-> ZeroFrame, r |-> b.r]
              ELSE IF m.err # "nil"
              THEN [err |-> m.err, frame |-> ZeroFrame, r |-> m.r]
              ELSE rfLength([f0 EXCEPT !.Mask = (m.data[1] >= 128)], m.r,
                            m.data[1] % 128)

(***************************************************************************)
(* opener.go: the handshake.  SHA-1 and base64 are kept symbolic: the      *)
(* token is the digest of the key followed by the GUID.                    *)
(***************************************************************************)
websocketGUID == "258EAFA5-E914-47DA-95CA-C5AB0DC85B11"

generateWebsocketAcceptToken(secWebsocketKey) ==
    [base64 |-> [sha1 |-> <<secWebsocketKey, websocketGUID>>]]

newWebsocketAcceptResponse(acceptToken) ==
    [Status |-> "101 Switching Protocols", Proto |-> "HTTP/1.1",
     Upgrade |-> "websocket", Connection |-> "Upgrade",
     SecWebSocketAccept |-> acceptToken]

(***************************************************************************)
(* The inputs of the model.                                                *)
(***************************************************************************)
\* WSOpener.MaxBytes
MaxLimit == 2
Limits == (-1)..MaxLimit

\* the t argument of Open: WebsocketType is a string, any value can be given
Types == {TextWebsocket, BinaryWebsocket, "other"}

\* the Sec-WebSocket-Key header of the request ("" when it is absent)
SampleKey == "dGhlIHNhbXBsZSBub25jZQ=="

\* the calls of Open: the message type asked for and the request's key
Requests ==
    { [t |-> ty, key |-> SampleKey] : ty \in Types }
    \cup { [t |-> TextWebsocket, key |-> ""] }

PayloadBytes == {72, 255}

RECURSIVE SeqsUpTo(_, _)
SeqsUpTo(S, n) ==
    IF n = 0 THEN {<<>>}
    ELSE LET shorter == SeqsUpTo(S, n - 1)
         IN  shorter \cup {Append(q, x) : q \in {t \in shorter : Len(t) = n - 1}, x \in S}

\* the messages handed to Send
Payloads == SeqsUpTo(PayloadBytes, MaxLen)

\* the longest frame such a message gives: 10 bytes of header at most
MaxFrameBytes == MaxLen + 10

(***************************************************************************)
(* The peer.  A client frame on the wire, as RFC 6455 section 5.2 lays it  *)
(* out: ext are the extended length bytes that follow the length tag, key  *)
(* the masking key (<<>> when the frame is not masked), data the payload   *)
(* as it is before masking.                                                *)
(***************************************************************************)
ClientFrame(fin, nibble, tag, ext, key, data) ==
    [head |-> << (IF fin THEN 128 ELSE 0) + nibble,
                 (IF key # <<>> THEN 128 ELSE 0) + tag >> \o ext \o key,
     body |-> [i \in 1..Len(data) |->
                 IF key # <<>> THEN Xor(data[i], key[((i - 1) % 4) + 1])
                 ELSE data[i]]]

\* the masking key of the RFC's example
Key == <<55, 250, 33, 61>>

\* what the peer may send: sequences of frames
Scripts ==
    { \* a masked text message "Hi" in one frame
      << ClientFrame(TRUE, 1, 2, <<>>, Key, <<72, 105>>) >>,
      \* the same message in two fragments
      << ClientFrame(FALSE, 1, 1, <<>>, Key, <<72>>),
         ClientFrame(TRUE, 0, 1, <<>>, Key, <<105>>) >>,
      \* an empty masked text message
      << ClientFrame(TRUE, 1, 0, <<>>, Key, <<>>) >>,
      \* a frame whose mask bit is clear: with a payload, and without
      << ClientFrame(TRUE, 1, 1, <<>>, <<>>, <<72>>) >>,
      << ClientFrame(TRUE, 2, 0, <<>>, <<>>, <<>>) >>,
      \* a reserved control opcode (0xB)
      << ClientFrame(TRUE, 11, 0, <<>>, Key, <<>>) >>,
      \* the 16-bit extended length with payload length 1: masked, and not
      << ClientFrame(TRUE, 2, 126, <<0, 1>>, Key, <<72>>) >>,
      << ClientFrame(TRUE, 2, 126, <<0, 1>>, <<>>, <<72>>) >>,
      \* the 64-bit extended length: payload length 1, and a length with
      \* its most significant bit set
      << ClientFrame(TRUE, 2, 127, <<0, 0, 0, 0, 0, 0, 0, 1>>, Key, <<72>>) >>,
      << ClientFrame(TRUE, 2, 127, <<128, 0, 0, 0, 0, 0, 0, 0>>, <<>>, <<>>) >> }

\* the bytes of a script
RECURSIVE ScriptBytes(_)
ScriptBytes(script) ==
    IF script = <<>> THEN <<>>
    ELSE Head(script).head \o Head(script).body \o ScriptBytes(Tail(script))

\* the first len bytes of the script end inside a frame header: after its
\* first byte and before its last
RECURSIVE MidHeader(_, _)
MidHeader(script, len) ==
    IF script = <<>> \/ len <= 0 THEN FALSE
    ELSE LET f == Head(script)
         IN  \/ len < Len(f.head)
             \/ MidHeader(Tail(script), len - Len(f.head) - Len(f.body))

\* the ways of cutting b into at most k segments, none empty
RECURSIVE Splits(_, _)
Splits(b, k) ==
    IF k <= 1 \/ Len(b) <= 1 THEN {<<b>>}
    ELSE {<<b>>} \cup
         UNION { { <<SubSeq(b, 1, i)>> \o rest :
                     rest \in Splits(SubSeq(b, i + 1, Len(b)), k - 1) } :
                 i \in 1..(Len(b) - 1) }

\* How a stream reaches the reader: a whole script cut into segments, or
\* the first bytes of one (the peer stops in the middle) in one segment.
Deliveries ==
    UNION { { [segs |-> segs, midHeader |-> FALSE] :
                segs \in Splits(ScriptBytes(script), MaxSegs) } :
            script \in Scripts }
    \cup UNION { { [segs |-> <<SubSeq(ScriptBytes(script), 1, len)>>,
                    midHeader |-> MidHeader(script, len)] :
                     len \in 1..Len(ScriptBytes(script)) } :
                 script \in Scripts }

(***************************************************************************)
(* The state.                                                              *)
(***************************************************************************)
VARIABLES
    MaxBytes,     \* WSOpener.MaxBytes
    openRes,      \* the error Open returned: "none" before the call
    ws,           \* the Websocket Open returned: [t, framingLimit]
    handshake,    \* what Open wrote to the hijacked connection
    closed,       \* Close has been called and has returned
    werr,         \* the bufio.Writer's sticky error is set
    sendPc,       \* Send: "idle", "writing", "done", "panicked", "looping"
    sendData,     \* the message of the Send in progress
    sendFrames,   \* what fragment returned to it
    sendIdx,      \* how many of them writeFrame has written
    sendRes,      \* the error Send returned
    written,      \* the bytes this Send has put on the connection
    recvPc,       \* Receive: "idle", "reading", "done", "panicked"
    message,      \* the message Receive accumulates and returns
    recvRes,      \* the error Receive returned
    frame,        \* the frame readFrame returned to it last
    umasked,      \* what umask returned for that frame
    rd,           \* the read half: [buf, net, closed]
    peer          \* what the peer has sent: kind "none", "script" or "echo",
                  \* the payload echoed, midHeader: the stream ends inside
                  \* a frame header, fresh: no Receive has returned since,
                  \* alone: what a Receive running with no Send beside it
                  \* returns on the stream (worked out where a Send runs
                  \* beside the Receive)

vars == << MaxBytes, openRes, ws, handshake, closed, werr,
           sendPc, sendData, sendFrames, sendIdx, sendRes, written,
           recvPc, message, recvRes, frame, umasked, rd, peer >>

openVars == << MaxBytes, openRes, ws, handshake >>
sendVars == << sendPc, sendData, sendFrames, sendIdx, sendRes, written >>
recvVars == << recvPc, message, recvRes, frame, umasked >>

NoWebsocket == [t |-> "", framingLimit |-> 0]

\* sent: "none", "part" or "all" of the response reached the connection
NoHandshake == [sent |-> "none", key |-> "", response |-> <<>>]

NoAlone == [res |-> "none", message |-> <<>>]

NoPeer == [kind |-> "none", payload |-> <<>>, midHeader |-> FALSE, fresh |-> TRUE,
           alone |-> NoAlone]

Init ==
    /\ MaxBytes \in Limits
    /\ openRes = "none"
    /\ ws = NoWebsocket
    /\ handshake = NoHandshake
    /\ closed = FALSE
    /\ werr = FALSE
    /\ sendPc = "idle"
    /\ sendData = <<>>
    /\ sendFrames = <<>>
    /\ sendIdx = 0
    /\ sendRes = "none"
    /\ written = <<>>
    /\ recvPc = "idle"
    /\ message = <<>>
    /\ recvRes = "none"
    /\ frame = ZeroFrame
    /\ umasked = <<>>
    /\ rd = [buf |-> <<>>, net |-> <<>>, closed |-> FALSE]
    /\ peer = NoPeer

\* Open returning the connection without looking at the handshake's error
OpenUnchecked(hijackable, hijackErr, t, key, flushed) ==
    /\ openRes = "none"
    /\ IF ~hijackable
       THEN /\ openRes' = "HijackingNotSupported"
            /\ UNCHANGED << ws, handshake >>
       ELSE IF hijackErr
       THEN /\ openRes' = "HijackErr"
            /\ UNCHANGED << ws, handshake >>
       ELSE LET response == newWebsocketAcceptResponse(
                                generateWebsocketAcceptToken(key))
            IN  /\ handshake' = [sent |-> flushed, key |-> key,
                                 response |-> <<response>>]
                /\ openRes' = "nil"
                /\ ws' = [t |-> t, framingLimit |-> MaxBytes]
    /\ UNCHANGED << MaxBytes, closed, werr, rd, peer >>
    /\ UNCHANGED sendVars
    /\ UNCHANGED recvVars

(***************************************************************************)
(* opener.go: Open.  hijackable: the ResponseWriter is an http.Hijacker;   *)
(* hijackErr: Hijack returns an error; flushed: how the Flush of the       *)
(* handshake response ends on the connection.                              *)
(***************************************************************************)
Open(hijackable, hijackErr, t, key, flushed) ==
    /\ openRes = "none"
    /\ IF ~hijackable
       THEN /\ openRes' = "HijackingNotSupported"
            /\ UNCHANGED << ws, handshake >>
       ELSE IF hijackErr
       THEN /\ openRes' = "HijackErr"
            /\ UNCHANGED << ws, handshake >>
       ELSE LET response == newWebsocketAcceptResponse(
                                generateWebsocketAcceptToken(key))
            IN  /\ handshake' = [sent |-> flushed, key |-> key,
                                 response |-> <<response>>]
                /\ IF flushed = "all"
                   THEN /\ openRes' = "nil"
                        /\ ws' = [t |-> t, framingLimit |-> MaxBytes]
                   ELSE /\ openRes' = "WriteErr"
                        /\ UNCHANGED ws
    /\ UNCHANGED << MaxBytes, closed, werr, rd, peer >>
    /\ UNCHANGED sendVars
    /\ UNCHANGED recvVars

(***************************************************************************)
(* websocket.go: Close.                                                    *)
(***************************************************************************)
Close ==
    /\ openRes = "nil"
    /\ sendPc = "idle" /\ recvPc = "idle"
    /\ closed' = TRUE
    /\ UNCHANGED << werr, rd, peer >>
    /\ UNCHANGED openVars
    /\ UNCHANGED sendVars
    /\ UNCHANGED recvVars

(***************************************************************************)
(* websocket.go: Send.  SendCall is the call up to the return of           *)
(* fragment, SendWriteFrame one iteration of the loop over the frames,     *)
(* SendReturn the caller taking the result.  A panic unwinds the call: its *)
(* locals are gone.  The caller is one goroutine:                          *)
(* it has one call in progress at a time, and it sends when it has read    *)
(* what the peer sent.                                                     *)
(***************************************************************************)
SendStart(data) ==
    /\ openRes = "nil"
    /\ sendPc = "idle"
    /\ LET fr == fragment(ws.t, ws.framingLimit, data)
       IN  /\ sendData' = IF fr.err = "panic" THEN <<>> ELSE data
           /\ sendFrames' = IF fr.err = "panic" THEN <<>> ELSE fr.frames
           /\ sendIdx' = 0
           /\ written' = <<>>
           /\ IF fr.err = "panic"
              THEN sendPc' = "panicked" /\ sendRes' = "panic"
              ELSE IF fr.err = "diverge"
              THEN sendPc' = "looping" /\ sendRes' = "none"
              ELSE IF fr.err # "nil"
              THEN sendPc' = "done" /\ sendRes' = fr.err
              ELSE IF fr.frames = <<>>
              THEN sendPc' = "done" /\ sendRes' = "nil"
              ELSE sendPc' = "writing" /\ sendRes' = "none"
    /\ UNCHANGED << closed, werr, rd, peer >>
    /\ UNCHANGED openVars
    /\ UNCHANGED recvVars

\* Send called by the one goroutine that also calls Receive
SendCall(data) ==
    /\ recvPc = "idle"
    /\ rd.buf = <<>> /\ rd.net = <<>>
    /\ SendStart(data)

\* SendWriteFrame going on to the next frame after a failed write
SendWriteFrameContinue(short) ==
    /\ sendPc = "writing"
    /\ LET w == writeFrame(sendFrames[sendIdx + 1])
           n == Len(w.bytes) - short
       IN  /\ n >= 0
           /\ w.err = "nil"
           /\ written' = written \o SubSeq(w.bytes, 1, n)
           /\ werr' = (werr \/ short > 0)
           /\ sendIdx' = sendIdx + 1
           /\ IF sendIdx + 1 = Len(sendFrames)
              THEN sendPc' = "done" /\ sendRes' = "nil"
              ELSE sendPc' = "writing" /\ sendRes' = "none"
           /\ UNCHANGED << sendData, sendFrames >>
    /\ UNCHANGED << closed, rd, peer >>
    /\ UNCHANGED openVars
    /\ UNCHANGED recvVars

\* short: how many bytes of the frame the connection fails to take; any
\* at all is a failed write, which the bufio.Writer remembers.
SendWriteFrame(short) ==
    /\ sendPc = "writing"
    /\ LET w == writeFrame(sendFrames[sendIdx + 1])
           n == Len(w.bytes) - short
       IN  /\ n >= 0
           /\ IF w.err = "InvalidOpcode"
              THEN /\ short = 0
                   /\ sendPc' = "done" /\ sendRes' = w.err
                   /\ UNCHANGED << sendData, sendFrames, sendIdx, written, werr >>
              ELSE IF werr
              THEN /\ short = 0
                   /\ sendPc' = "done" /\ sendRes' = "WriteErr"
                   /\ UNCHANGED << sendData, sendFrames, sendIdx, written, werr >>
              ELSE IF w.err = "panic"
              THEN /\ short = 0
                   /\ sendPc' = "panicked" /\ sendRes' = "panic"
                   /\ sendData' = <<>> /\ sendFrames' = <<>>
                   /\ UNCHANGED << sendIdx, written, werr >>
              ELSE IF short > 0
              THEN /\ written' = written \o SubSeq(w.bytes, 1, n)
                   /\ werr' = TRUE
                   /\ sendPc' = "done" /\ sendRes' = "WriteErr"
                   /\ UNCHANGED << sendData, sendFrames, sendIdx >>
              ELSE /\ written' = written \o w.bytes
                   /\ sendIdx' = sendIdx + 1
                   /\ IF sendIdx + 1 = Len(sendFrames)
                      THEN sendPc' = "done" /\ sendRes' = "nil"
                      ELSE sendPc' = "writing" /\ sendRes' = "none"
                   /\ UNCHANGED << sendData, sendFrames, werr >>
    /\ UNCHANGED << closed, rd, peer >>
    /\ UNCHANGED openVars
    /\ UNCHANGED recvVars

SendReturn ==
    /\ sendPc = "done"
    /\ sendPc' = "idle"
    /\ sendData' = <<>>
    /\ sendFrames' = <<>>
    /\ sendIdx' = 0
    /\ sendRes' = "none"
    /\ written' = <<>>
    /\ UNCHANGED << closed, werr, rd, peer >>
    /\ UNCHANGED openVars
    /\ UNCHANGED recvVars

(***************************************************************************)
(* websocket.go: Receive.  RecvCall is the call, RecvFrame one iteration   *)
(* of its loop (readFrame, umask, append, the FIN test), enabled when      *)
(* readFrame does not wait for the peer, RecvReturn the caller taking the  *)
(* result.                                                                 *)
(***************************************************************************)
RecvStart ==
    /\ openRes = "nil"
    /\ recvPc = "idle"
    /\ recvPc' = "reading"
    /\ message' = <<>>
    /\ recvRes' = "none"
    /\ UNCHANGED << frame, umasked >>
    /\ UNCHANGED << closed, werr, rd, peer >>
    /\ UNCHANGED openVars
    /\ UNCHANGED sendVars

\* Receive called by the one goroutine that also calls Send
RecvCall ==
    /\ sendPc = "idle"
    /\ RecvStart

\* RecvFrame with one error field for the whole connection: a failed read
\* is remembered where the writer keeps its write error
RecvFrameSharedErr ==
    /\ recvPc = "reading"
    /\ LET rf == readFrame(rd)
           um == umask(rf.frame)
       IN  /\ rf.err # "block"
           /\ rd' = rf.r
           /\ werr' = (werr \/ rf.err \notin {"nil", "panic"})
           /\ IF rf.err = "panic"
              THEN /\ recvPc' = "panicked" /\ recvRes' = "panic"
                   /\ message' = <<>> /\ frame' = ZeroFrame /\ umasked' = <<>>
              ELSE IF rf.err # "nil"
              THEN /\ recvPc' = "done" /\ recvRes' = rf.err
                   /\ UNCHANGED << message, frame, umasked >>
              ELSE IF um.panic
              THEN /\ recvPc' = "panicked" /\ recvRes' = "panic"
                   /\ message' = <<>> /\ frame' = ZeroFrame /\ umasked' = <<>>
              ELSE /\ frame' = rf.frame
                   /\ umasked' = um.out
                   /\ message' = message \o um.out
                   /\ IF rf.frame.FIN
                      THEN recvPc' = "done" /\ recvRes' = "nil"
                      ELSE recvPc' = "reading" /\ recvRes' = "none"
    /\ UNCHANGED << closed, peer >>
    /\ UNCHANGED openVars
    /\ UNCHANGED sendVars

RecvFrame ==
    /\ recvPc = "reading"
    /\ LET rf == readFrame(rd)
           um == umask(rf.frame)
       IN  /\ rf.err # "block"
           /\ rd' = rf.r
           /\ IF rf.err = "panic"
              THEN /\ recvPc' = "panicked" /\ recvRes' = "panic"
                   /\ message' = <<>> /\ frame' = ZeroFrame /\ umasked' = <<>>
              ELSE IF rf.err # "nil"
              THEN /\ recvPc' = "done" /\ recvRes' = rf.err
                   /\ UNCHANGED << message, frame, umasked >>
              ELSE IF um.panic
              THEN /\ recvPc' = "panicked" /\ recvRes' = "panic"
                   /\ message' = <<>> /\ frame' = ZeroFrame /\ umasked' = <<>>
              ELSE /\ frame' = rf.frame
                   /\ umasked' = um.out
                   /\ message' = message \o um.out
                   /\ IF rf.frame.FIN
                      THEN recvPc' = "done" /\ recvRes' = "nil"
                      ELSE recvPc' = "reading" /\ recvRes' = "none"
    /\ UNCHANGED << closed, werr, peer >>
    /\ UNCHANGED openVars
    /\ UNCHANGED sendVars

RecvReturn ==
    /\ recvPc = "done"
    /\ recvPc' = "idle"
    /\ message' = <<>>
    /\ recvRes' = "none"
    /\ frame' = ZeroFrame
    /\ umasked' = <<>>
    /\ peer' = [peer EXCEPT !.fresh = FALSE]
    /\ UNCHANGED << closed, werr, rd >>
    /\ UNCHANGED openVars
    /\ UNCHANGED sendVars

(***************************************************************************)
(* The peer: it sends one stream, the first len bytes of a script, which   *)
(* reach the reader cut into segments, or it sends back the bytes the      *)
(* Send that has just returned put on the connection; it may then close.   *)
(* Bytes arriving during a Send change nothing the Send reads, so they     *)
(* are let in between calls only.                                          *)
(***************************************************************************)
PeerSend(d) ==
    /\ openRes = "nil"
    /\ peer.kind = "none"
    /\ ~rd.closed
    /\ sendPc = "idle"
    /\ rd' = [rd EXCEPT !.net = d.segs]
    /\ peer' = [kind |-> "script", payload |-> <<>>,
                midHeader |-> d.midHeader, fresh |-> TRUE, alone |-> NoAlone]
    /\ UNCHANGED << closed, werr >>
    /\ UNCHANGED openVars
    /\ UNCHANGED sendVars
    /\ UNCHANGED recvVars

PeerEcho ==
    /\ peer.kind = "none"
    /\ ~rd.closed
    /\ sendPc = "done" /\ sendRes = "nil"
    /\ written # <<>>
    /\ \E segs \in Splits(written, MaxSegs) :
          rd' = [rd EXCEPT !.net = segs]
    /\ peer' = [kind |-> "echo", payload |-> sendData,
                midHeader |-> FALSE, fresh |-> TRUE, alone |-> NoAlone]
    /\ UNCHANGED << closed, werr >>
    /\ UNCHANGED openVars
    /\ UNCHANGED sendVars
    /\ UNCHANGED recvVars

PeerClose ==
    /\ openRes = "nil"
    /\ ~rd.closed
    /\ sendPc \in {"idle", "done"}
    /\ rd' = [rd EXCEPT !.closed = TRUE]
    /\ UNCHANGED << closed, werr, peer >>
    /\ UNCHANGED openVars
    /\ UNCHANGED sendVars
    /\ UNCHANGED recvVars

Next ==
    \/ \E hijackable \in BOOLEAN, hijackErr \in BOOLEAN, req \in Requests,
          flushed \in {"part", "all"} :
          Open(hijackable, hijackErr, req.t, req.key, flushed)
    \/ Close
    \/ \E data \in Payloads : SendCall(data)
    \/ \E short \in 0..MaxFrameBytes : SendWriteFrame(short)
    \/ SendReturn
    \/ RecvCall
    \/ RecvFrame
    \/ RecvReturn
    \/ \E d \in Deliveries : PeerSend(d)
    \/ PeerEcho
    \/ PeerClose

Spec == Init /\ [][Next]_vars

(***************************************************************************)
(* The send path at the lengths where the length field changes its form:   *)
(* a connection that Open has returned, with a large MaxBytes, and         *)
(* messages of the boundary lengths; the connection takes every byte.      *)
(***************************************************************************)
\* most frames of one message
MaxFrames == 2

BigLimits == {125, 126, 65535, 65536, 65662}

BigLengths == {125, 126, 127, 65534, 65535, 65536, 65537, 65662}

BigPayloads == { [i \in 1..len |-> i % 251] : len \in BigLengths }

InitLen ==
    /\ MaxBytes \in BigLimits
    /\ openRes = "nil"
    /\ ws \in { [t |-> t, framingLimit |-> MaxBytes] :
                  t \in {TextWebsocket, BinaryWebsocket} }
    /\ handshake = [sent |-> "all", key |-> SampleKey,
                    response |-> <<newWebsocketAcceptResponse(
                                     generateWebsocketAcceptToken(SampleKey))>>]
    /\ closed = FALSE
    /\ werr = FALSE
    /\ sendPc = "idle"
    /\ sendData = <<>>
    /\ sendFrames = <<>>
    /\ sendIdx = 0
    /\ sendRes = "none"
    /\ written = <<>>
    /\ recvPc = "idle"
    /\ message = <<>>
    /\ recvRes = "none"
    /\ frame = ZeroFrame
    /\ umasked = <<>>
    /\ rd = [buf |-> <<>>, net |-> <<>>, closed |-> FALSE]
    /\ peer = NoPeer

NextLen ==
    \/ \E data \in BigPayloads :
          /\ Len(data) <= MaxFrames * MaxBytes
          /\ SendCall(data)
    \/ SendWriteFrame(0)
    \/ SendReturn

SpecLen == InitLen /\ [][NextLen]_vars

(***************************************************************************)
(* One Send and one Receive, each in a goroutine of its own, on a          *)
(* connection that Open has returned.  The peer has sent its frames, which *)
(* reach the reader cut into segments, and has closed; the connection      *)
(* takes every byte written.  The steps of the two calls interleave in     *)
(* every order.  A panic ends the call it happens in; when nothing         *)
(* recovers it the program stops there, which is a prefix of a run where   *)
(* the other call goes on.                                                 *)
(***************************************************************************)
\* Receive run from reader r to its end, msg the message accumulated so
\* far: the loop of lines 195-213 with nothing running beside it
RECURSIVE ReceiveRun(_, _)
ReceiveRun(r, msg) ==
    LET iteration(rf, um) ==
            IF rf.err = "panic" THEN [res |-> "panic", message |-> <<>>]
            ELSE IF rf.err # "nil" THEN [res |-> rf.err, message |-> msg]
            ELSE IF um.panic THEN [res |-> "panic", message |-> <<>>]
            ELSE IF rf.frame.FIN THEN [res |-> "nil", message |-> msg \o um.out]
            ELSE ReceiveRun(rf.r, msg \o um.out)
    IN  CHOOSE result \in { iteration(rf, umask(rf.frame)) : rf \in {readFrame(r)} } :
           TRUE

\* a fragmented message with a control frame between its two fragments
ControlScripts ==
    { << ClientFrame(FALSE, 1, 1, <<>>, Key, <<72>>),
         ClientFrame(TRUE, nibble, Len(data), <<>>, Key, data),
         ClientFrame(TRUE, 0, 1, <<>>, Key, <<105>>) >> :
      nibble \in {8, 9, 10}, data \in {<<>>, <<112>>} }

\* what the peer has sent when the two calls start
ConcScripts ==
    ControlScripts
    \cup { \* a message in two fragments
           << ClientFrame(FALSE, 1, 1, <<>>, Key, <<72>>),
              ClientFrame(TRUE, 0, 1, <<>>, Key, <<105>>) >>,
           \* a frame that is not masked
           << ClientFrame(TRUE, 1, 1, <<>>, <<>>, <<72>>) >>,
           \* a header that stops inside its 16-bit length
           << ClientFrame(TRUE, 2, 126, <<0>>, <<>>, <<>>) >> }

ConcStreams == UNION { Splits(ScriptBytes(script), MaxSegs) : script \in ConcScripts }

\* the messages the Send is called with
ConcPayloads == { [i \in 1..n |-> 72] : n \in 0..MaxLen }

InitConc ==
    /\ MaxBytes \in 1..MaxLimit
    /\ openRes = "nil"
    /\ ws = [t |-> TextWebsocket, framingLimit |-> MaxBytes]
    /\ handshake = [sent |-> "all", key |-> SampleKey,
                    response |-> <<newWebsocketAcceptResponse(
                                     generateWebsocketAcceptToken(SampleKey))>>]
    /\ closed = FALSE
    /\ werr = FALSE
    /\ sendPc = "idle"
    /\ sendData = <<>>
    /\ sendFrames = <<>>
    /\ sendIdx = 0
    /\ sendRes = "none"
    /\ written = <<>>
    /\ recvPc = "idle"
    /\ message = <<>>
    /\ recvRes = "none"
    /\ frame = ZeroFrame
    /\ umasked = <<>>
    /\ \E segs \in ConcStreams :
          /\ rd = [buf |-> <<>>, net |-> segs, closed |-> TRUE]
          /\ peer = [kind |-> "script", payload |-> <<>>, midHeader |-> FALSE,
                     fresh |-> TRUE, alone |-> ReceiveRun(rd, <<>>)]

NextConc ==
    \/ \E data \in ConcPayloads : SendStart(data)
    \/ SendWriteFrame(0)
    \/ RecvStart
    \/ RecvFrame

SpecConc == InitConc /\ [][NextConc]_vars

(***************************************************************************)
(* The claims.                                                             *)
(***************************************************************************)
TypeOpcode(t) == IF t = TextWebsocket THEN TextFrame ELSE BinaryFrame

TypeNibble(t) == IF t = TextWebsocket THEN 1 ELSE 2

RECURSIVE ConcatData(_)
ConcatData(frames) ==
    IF frames = <<>> THEN <<>>
    ELSE Head(frames).ApplicationData \o ConcatData(Tail(frames))

\* C1: round trip.  When the peer sends back the bytes that Send(P) wrote
\* on a connection with framing limit >= 1, the Receive that reads them
\* returns exactly P and no error.
C1_RoundTrip ==
    (/\ peer.kind = "echo" /\ peer.fresh
     /\ ws.framingLimit >= 1
     /\ recvPc \in {"done", "panicked"})
    => (recvPc = "done" /\ recvRes = "nil" /\ message = peer.payload)

\* C2: zero-length message.  Send of an empty payload on a Text or Binary
\* connection returns no error having written exactly one frame: FIN with
\* the message-type opcode, and payload length 0.
C2_EmptyMessageOneFrame ==
    (/\ sendPc = "done" /\ sendData = <<>>
     /\ ws.t \in {TextWebsocket, BinaryWebsocket}
     /\ ws.framingLimit >= 1)
    => (sendRes = "nil" /\ written = << 128 + TypeNibble(ws.t), 0 >>)

\* C3: no panic on protocol input.  Receive ends by returning a message or
\* an error, never by a runtime abort, whatever bytes arrive.
C3_ReceiveNeverPanics == recvPc # "panicked"

\* C4: a non-positive fragmentation bound is rejected by Open, which
\* returns an error and no connection, so that no Send loops forever.
C4_BoundRejectedAtOpen ==
    /\ MaxBytes <= 0 => openRes # "nil"
    /\ sendPc # "looping"

\* C5: unmasking is a positional XOR of fixed output length.  For a frame
\* with a 4-byte key, umask returns len(D) bytes, byte i being
\* D[i] XOR K[i mod 4].
C5_UmaskPositional ==
    (recvPc \in {"reading", "done"} /\ Len(frame.MaskingKey) = 4)
    => /\ Len(umasked) = Len(frame.ApplicationData)
       /\ \A i \in 1..Len(frame.ApplicationData) :
             umasked[i] = Xor(frame.ApplicationData[i],
                              frame.MaskingKey[((i - 1) % 4) + 1])

\* the header with the smallest length representation of len
MinimalHeader(fin, nibble, len) ==
    << (IF fin THEN 128 ELSE 0) + nibble >>
    \o (IF len <= 125 THEN <<len>>
        ELSE IF len <= 65535 THEN <<126>> \o PutUint16(len)
        ELSE <<127>> \o U64OfInt(len))

RECURSIVE MinimalWire(_, _, _)
MinimalWire(frames, upTo, first) ==
    IF upTo = 0 THEN <<>>
    ELSE MinimalWire(frames, upTo - 1, first)
         \o MinimalHeader(frames[upTo].FIN,
                          IF upTo = 1 THEN first ELSE 0,
                          Len(frames[upTo].ApplicationData))
         \o frames[upTo].ApplicationData

\* C6: minimal length encoding on the send path.  Every chunk that Send
\* emits is written, with no abort, with the smallest length
\* representation of its length, also at 125, 126, 65535 and 65536.
C6_MinimalLengthWritten ==
    /\ sendPc # "panicked"
    /\ sendPc \in {"writing", "done"}
       => written = MinimalWire(sendFrames, sendIdx, TypeNibble(ws.t))

\* C7: FIN and opcode placement.  When fragment returns N >= 1 frames on a
\* Text or Binary connection, the last frame and only it has FIN, the
\* first carries the message-type opcode and every other Continuation.
C7_FinAndOpcodePlacement ==
    (/\ sendPc \in {"writing", "done"}
     /\ ws.t \in {TextWebsocket, BinaryWebsocket}
     /\ Len(sendFrames) >= 1)
    => /\ \A i \in 1..Len(sendFrames) :
             sendFrames[i].FIN <=> (i = Len(sendFrames))
       /\ sendFrames[1].Opcode = TypeOpcode(ws.t)
       /\ \A i \in 2..Len(sendFrames) :
             sendFrames[i].Opcode = ContinuationFrame

C7_Witness ==
    /\ sendPc = "writing"
    /\ ws.t = BinaryWebsocket
    /\ Len(sendFrames) = 3
    /\ sendIdx = 2

\* C8: chunking.  For a payload of length L > 0 and a framing limit B >= 1
\* the loop ends and returns ceil(L/B) frames, all but the last of B bytes,
\* the last of L - (N-1)*B bytes (1..B), which concatenated are the payload;
\* L <= B gives one frame.
C8_Chunking ==
    LET L == Len(sendData)
        B == ws.framingLimit
        N == Len(sendFrames)
    IN  (sendPc # "idle" /\ L > 0 /\ B >= 1)
        => /\ sendPc \in {"writing", "done"}
           /\ N = (L + B - 1) \div B
           /\ \A i \in 1..(N - 1) : Len(sendFrames[i].ApplicationData) = B
           /\ Len(sendFrames[N].ApplicationData) = L - (N - 1) * B
           /\ Len(sendFrames[N].ApplicationData) \in 1..B
           /\ ConcatData(sendFrames) = sendData
           /\ (L <= B => N = 1)

C8_Witness ==
    /\ sendPc = "done"
    /\ sendRes = "nil"
    /\ Len(sendData) = 3
    /\ ws.framingLimit = 2
    /\ sendData[1] # sendData[3]

\* C9: malformed input is reported.  When the frame read carries a reserved
\* control opcode (0xB-0xF), or the stream ends inside a frame header,
\* Receive returns an error, not a message.
C9_MalformedReported ==
    /\ (recvPc = "done" /\ frame.Opcode = ControlFrame) => recvRes # "nil"
    /\ (/\ recvPc = "done"
        /\ peer.kind = "script" /\ peer.midHeader
        /\ rd.closed /\ rd.buf = <<>> /\ rd.net = <<>>)
       => recvRes # "nil"

\* C10: connection lifecycle.  After Close has returned, every Send and
\* every Receive returns an error, and the Send has written nothing.
C10_ClosedRejectsCalls ==
    closed
    => /\ sendPc # "writing"
       /\ sendPc = "done" => (sendRes # "nil" /\ written = <<>>)
       /\ recvPc = "done" => recvRes # "nil"

\* C11: errors are terminal.  Once a Send has failed on the connection
\* (the writer holds its write error), every later Send and every later
\* Receive returns an error.
C11_ErrorsTerminal ==
    werr => /\ sendPc = "done" => sendRes # "nil"
            /\ recvPc = "done" => recvRes # "nil"

\* C12: a request without Sec-WebSocket-Key aborts Open.  No byte of a 101
\* response is written for it, and Open returns an error and no connection.
C12_EmptyKeyAborts ==
    (handshake.response # <<>> /\ handshake.key = "")
    => /\ handshake.sent = "none"
       /\ openRes # "nil"
       /\ ws = NoWebsocket

\* C15: an unsupported message type is an error at send time.  On a
\* connection whose type is neither Text nor Binary, Send returns
\* InvalidFrameType for every payload, the empty one too, and writes
\* nothing.
C15_UnsupportedTypeRejected ==
    (/\ sendPc = "done"
     /\ openRes = "nil"
     /\ ws.t \notin {TextWebsocket, BinaryWebsocket}
     /\ ws.framingLimit >= 1)
    => (sendRes = "InvalidFrameType" /\ written = <<>>)

\* C16: Open yields a connection only after the handshake is complete.  It
\* returns the connection only when the whole 101 response has reached the
\* hijacked stream; a writer that cannot be hijacked gives
\* HijackingNotSupported with nothing written; a failed Hijack, write or
\* flush gives that error and no connection.
C16_OpenAfterHandshake ==
    /\ openRes = "nil" => handshake.sent = "all"
    /\ openRes = "HijackingNotSupported" => handshake.sent = "none"
    /\ openRes = "HijackErr" => handshake.sent = "none"
    /\ handshake.sent = "part" => openRes = "WriteErr"
    /\ openRes \notin {"none", "nil"} => ws = NoWebsocket

C16_Witness ==
    /\ openRes = "WriteErr"
    /\ handshake.sent = "part"
    /\ handshake.response # <<>>
    /\ ws = NoWebsocket

\* the bytes writeFrame puts on the stream for the first upTo frames
RECURSIVE WireOf(_, _)
WireOf(frames, upTo) ==
    IF upTo = 0 THEN <<>>
    ELSE WireOf(frames, upTo - 1) \o writeFrame(frames[upTo]).bytes

\* C20: Send writes the frames in order and stops at the first failure.
\* While it runs and when it returns nil the stream holds the frames
\* written so far, whole and in chunk order; when the write of frame k
\* fails Send returns that error with frames 1..k-1 and a part of frame k
\* on the stream, and no byte of a later frame.
C20_InOrderStopAtFailure ==
    sendPc \in {"writing", "done"}
    => /\ sendRes = "none" => written = WireOf(sendFrames, sendIdx)
       /\ sendRes = "nil" => /\ sendIdx = Len(sendFrames)
                             /\ written = WireOf(sendFrames, sendIdx)
       /\ sendRes = "WriteErr"
          => /\ sendPc = "done"
             /\ sendIdx < Len(sendFrames)
             /\ \E n \in 0..(Len(writeFrame(sendFrames[sendIdx + 1]).bytes) - 1) :
                   written = WireOf(sendFrames, sendIdx)
                             \o SubSeq(writeFrame(sendFrames[sendIdx + 1]).bytes, 1, n)

C20_Witness ==
    /\ sendPc = "done"
    /\ sendRes = "WriteErr"
    /\ Len(sendFrames) = 3
    /\ sendIdx = 1
    /\ Len(written) > Len(WireOf(sendFrames, 1))

\* the number of extended length bytes that follow the length tag
ExtLen(tag) == IF tag = 126 THEN 2 ELSE IF tag = 127 THEN 8 ELSE 0

\* Where frame i ends in the bytes Send has written, when every frame is
\* laid out as header, extended length, application data: the tag is read
\* from the bytes, the data length is that of the frame handed to
\* writeFrame.  -1 when the bytes end before the frame's tag.
RECURSIVE FrameEnd(_, _, _)
FrameEnd(bytes, frames, i) ==
    IF i = 0 THEN 0
    ELSE LET start == FrameEnd(bytes, frames, i - 1)
         IN  IF start < 0 \/ start + 2 > Len(bytes) THEN -1
             ELSE start + 2 + ExtLen(bytes[start + 2] % 128)
                        + Len(frames[i].ApplicationData)

\* the payload length the header at start announces, as a uint64
Announced(bytes, start) ==
    LET tag == bytes[start + 2] % 128
    IN  IF tag = 126 THEN U64OfInt(Uint16(SubSeq(bytes, start + 3, start + 4)))
        ELSE IF tag = 127 THEN SubSeq(bytes, start + 3, start + 10)
        ELSE U64OfInt(tag)

\* C13: server frames are never masked.  In every frame Send has written,
\* whatever its length, bit 7 of the second header byte is 0 and the
\* application data follows the length field at once, written as it is.
C13_NeverMasked ==
    (sendPc \in {"writing", "done"} /\ sendRes \in {"none", "nil"})
    => /\ FrameEnd(written, sendFrames, sendIdx) = Len(written)
       /\ \A i \in 1..sendIdx :
             LET start == FrameEnd(written, sendFrames, i - 1)
                 end == FrameEnd(written, sendFrames, i)
                 data == sendFrames[i].ApplicationData
             IN  /\ written[start + 2] < 128
                 /\ SubSeq(written, end - Len(data) + 1, end) = data

C13_Witness ==
    /\ sendPc = "done"
    /\ sendRes = "nil"
    /\ sendIdx = 2
    /\ written[2] = 126
    /\ Len(sendFrames[2].ApplicationData) = 1

\* C18: the header length matches the data written.  For every frame Send
\* has written, the payload length its header announces is the number of
\* application-data bytes that follow, also for chunks above 65535 bytes.
C18_HeaderLengthMatchesData ==
    (sendPc \in {"writing", "done"} /\ sendRes \in {"none", "nil"})
    => \A i \in 1..sendIdx :
          Announced(written, FrameEnd(written, sendFrames, i - 1))
          = U64OfInt(Len(sendFrames[i].ApplicationData))

\* what a Send that has fragmented its message returns and has written
\* when it runs on from frame idx + 1 with nothing else running
RECURSIVE SendRun(_, _, _, _)
SendRun(frames, idx, out, failed) ==
    IF idx = Len(frames) THEN [res |-> "nil", written |-> out]
    ELSE LET w == writeFrame(frames[idx + 1])
         IN  IF w.err = "InvalidOpcode" THEN [res |-> w.err, written |-> out]
             ELSE IF failed THEN [res |-> "WriteErr", written |-> out]
             ELSE IF w.err = "panic" THEN [res |-> "panic", written |-> out]
             ELSE SendRun(frames, idx + 1, out \o w.bytes, failed)

\* Send of data run from its call to its end with nothing running beside
\* it, on a connection that takes every byte
SendAlone(data) ==
    CHOOSE result \in
        { IF fr.err # "nil" THEN [res |-> fr.err, written |-> <<>>]
          ELSE SendRun(fr.frames, 0, <<>>, FALSE) :
          fr \in {fragment(ws.t, ws.framingLimit, data)} } : TRUE

\* C14: a Send and a Receive running concurrently do not interfere.  In
\* every interleaving of their steps the Send has written a prefix of the
\* bytes it writes alone, and at its end all of them, returning what it
\* returns alone; the Receive returns the message and the error it returns
\* alone.
C14_NoInterference ==
    /\ sendPc \in {"writing", "done"}
       => \A alone \in {SendAlone(sendData)} :
              /\ Len(written) <= Len(alone.written)
              /\ written = SubSeq(alone.written, 1, Len(written))
              /\ sendPc = "done"
                 => (sendRes = alone.res /\ written = alone.written)
    /\ recvPc \in {"done", "panicked"}
       => (recvRes = peer.alone.res /\ message = peer.alone.message)

\* both calls are under way: the Send has written one frame of several,
\* the Receive has read the first fragment of the peer's message
C14_Witness ==
    /\ sendPc = "writing"
    /\ sendIdx = 1
    /\ written # <<>>
    /\ recvPc = "reading"
    /\ message # <<>>
    /\ rd.net # <<>>

\* the bytes a reader still has to hand out
RECURSIVE Concat(_)
Concat(segs) == IF segs = <<>> THEN <<>> ELSE Head(segs) \o Concat(Tail(segs))

Flat(r) == r.buf \o Concat(r.net)

\* The first frame of a byte stream, laid out as RFC 6455 section 5.2 has
\* it: two header bytes, the extended length, the masking key when the
\* MASK bit is set, then as many bytes of data as the length says.
\* complete: the stream holds the whole frame.
WireFrame(bytes) ==
    IF Len(bytes) < 2 THEN [complete |-> FALSE]
    ELSE LET tag == bytes[2] % 128
             keyAt == 2 + ExtLen(tag)
             dataAt == keyAt + (IF bytes[2] >= 128 THEN 4 ELSE 0)
         IN  IF Len(bytes) < dataAt THEN [complete |-> FALSE]
             ELSE IF ~U64Fits(Announced(bytes, 0)) THEN [complete |-> FALSE]
             ELSE LET n == U64ToInt(Announced(bytes, 0))
                  IN  IF Len(bytes) < dataAt + n THEN [complete |-> FALSE]
                      ELSE [complete |-> TRUE,
                            length |-> Announced(bytes, 0),
                            key |-> SubSeq(bytes, keyAt + 1, dataAt),
                            data |-> SubSeq(bytes, dataAt + 1, dataAt + n),
                            rest |-> SubSeq(bytes, dataAt + n + 1, Len(bytes))]

\* C17: decode reads exact byte counts under partial delivery.  However
\* the stream hands over the bytes of a frame, a readFrame that returns no
\* error returns the frame's payload length, its 4-byte masking key and
\* its application data as they are on the wire, and leaves the stream at
\* the first byte after the frame.
C17_ExactCountsUnderPartialDelivery ==
    [][ (/\ recvPc = "reading"
         /\ peer' = peer
         /\ Flat(rd') # Flat(rd)
         /\ recvPc' \in {"reading", "done"}
         /\ recvRes' \in {"none", "nil"})
        => \A wire \in {WireFrame(Flat(rd))} :
              wire.complete
              => /\ PayloadLength(frame') = wire.length
                 /\ frame'.MaskingKey = wire.key
                 /\ frame'.ApplicationData = wire.data
                 /\ Flat(rd') = wire.rest ]_vars

\* C19: control frames are standalone, also in the middle of a message.
\* When Receive has read a fragment that does not end the message and the
\* next frame is a Ping, a Pong or a Close, that frame adds nothing to the
\* message and does not end it.
C19_ControlFramesStandalone ==
    [][ (/\ recvPc = "reading"
         /\ frame.Opcode \in {TextFrame, BinaryFrame, ContinuationFrame}
         /\ ~frame.FIN
         /\ rd' # rd
         /\ recvPc' \in {"reading", "done"}
         /\ recvRes' \in {"none", "nil"}
         /\ frame'.Opcode \in {Ping, Pong, ConnectionClose})
        => (message' = message /\ recvPc' = "reading") ]_vars

=============================================================================
